---- MODULE Spec2Model ----
(***************************************************************************)
(* Voltorb Flip (src/VoltorbFilp.py): the level catalog, board generation, *)
(* hints, the round state machine of Board, the level policy and the event *)
(* handlers of main().                                                     *)
(*                                                                         *)
(* Cells are addressed as in the source, by (row, col) in                  *)
(* 0..BOARD_SIZE-1; TLA+ sequences are 1-based, so board.board[row+1]      *)
(* [col+1] is the source's self.board[row][col].                           *)
(***************************************************************************)
EXTENDS Integers, Sequences, FiniteSets, TLC

VARIABLES
    board,                  \* main's `board`: the current Board object
    level,                  \* main's `level`
    high_score,             \* main's `high_score`
    show_level_menu,        \* main's `show_level_menu`
    level_decrease_message, \* main's `level_decrease_message`
    score_dat,              \* the content of the file score.dat
    running,                \* main's `running`
    screen                  \* what the last pygame.display.flip() has shown

vars == <<board, level, high_score, show_level_menu, level_decrease_message,
          score_dat, running, screen>>

----------------------------------------------------------------------------
(* Program constants *)

BOARD_SIZE == 5

\* The price of a level in the menu (main, key S)
LEVEL_PRICE == 100

----------------------------------------------------------------------------
(* Bounds of the model *)

\* The player clicks only on the first MaxCol cells of the second row.
MaxCol == 4

\* random.shuffle is explored on the left rotations of the cell list by
\* 0..MaxShift places.
MaxShift == 1

\* Wins and level purchases are explored up to this level.
MaxLevel == 2

\* Won rounds are banked while the total score stays at or below MaxTotal.
MaxTotal == 60

\* The catalog lookup is probed on the levels 1..MaxProbeLevel.
MaxProbeLevel == 11

\* A player who flips until the round ends clicks on one of the first MaxPick
\* or the last MaxPick unflipped cells in reading order.
MaxPick == 1

\* Start-up is probed with stored scores 0..MaxStored.
MaxStored == 2

\* The level menu is explored at the levels 1..MaxSpendLevel.
MaxSpendLevel == 3

\* Lost rounds are explored from the levels 1..MaxLossLevel.
MaxLossLevel == 19

----------------------------------------------------------------------------
(* Helpers *)

Min(a, b) == IF a < b THEN a ELSE b

Max(a, b) == IF a > b THEN a ELSE b

SetMax(S) == CHOOSE x \in S : \A y \in S : y <= x

\* [x for _ in range(n)]: empty when n <= 0
Repeat(n, x) == [i \in 1..n |-> x]

\* Python's s[a:b] for 0 <= a <= b
Slice(s, a, b) == SubSeq(s, Min(a, Len(s)) + 1, Min(b, Len(s)))

RECURSIVE SumSeq(_)
SumSeq(s) == IF s = <<>> THEN 0 ELSE Head(s) + SumSeq(Tail(s))

RECURSIVE ProdSeq(_)
ProdSeq(s) == IF s = <<>> THEN 1 ELSE Head(s) * ProdSeq(Tail(s))

----------------------------------------------------------------------------
(* Level catalog *)

Config(n2, n3, nv) == [twos |-> n2, threes |-> n3, Voltorbs |-> nv]

LEVEL_CONFIGURATIONS ==
    [l \in 1..8 |->
        CASE l = 1 -> << Config(3, 1, 6), Config(0, 3, 6), Config(5, 0, 6),
                         Config(2, 2, 6), Config(4, 1, 6) >>
          [] l = 2 -> << Config(1, 3, 7), Config(6, 0, 7), Config(3, 2, 7),
                         Config(0, 4, 7), Config(5, 1, 7) >>
          [] l = 3 -> << Config(2, 3, 8), Config(7, 0, 8), Config(4, 2, 8),
                         Config(1, 4, 8), Config(6, 1, 8) >>
          [] l = 4 -> << Config(3, 3, 8), Config(0, 5, 8), Config(8, 0, 10),
                         Config(5, 2, 10), Config(2, 4, 10) >>
          [] l = 5 -> << Config(7, 1, 10), Config(4, 3, 10), Config(1, 5, 10),
                         Config(9, 0, 10), Config(6, 2, 10) >>
          [] l = 6 -> << Config(3, 4, 10), Config(0, 6, 10), Config(8, 1, 10),
                         Config(5, 3, 10), Config(2, 5, 10) >>
          [] l = 7 -> << Config(7, 2, 10), Config(4, 4, 10), Config(1, 6, 13),
                         Config(9, 1, 13), Config(6, 3, 10) >>
          [] l = 8 -> << Config(0, 7, 10), Config(8, 2, 10), Config(5, 4, 10),
                         Config(2, 6, 10), Config(7, 3, 10) >> ]

\* A catalog holding only the composition of Scenario A (19 ones, 6 mines),
\* used to exercise Board on a grid without multiplier cells.
SCENARIO_CONFIGURATIONS == [l \in 1..1 |-> << Config(0, 0, 6) >>]

\* The lookup with the lowest level as the default
ConfigurationsMinDefault(catalog, lvl) ==
    IF lvl \in DOMAIN catalog THEN catalog[lvl]
    ELSE catalog[CHOOSE x \in DOMAIN catalog : \A y \in DOMAIN catalog : x <= y]

\* catalog.get(level, catalog[max(catalog.keys())])
Configurations(catalog, lvl) ==
    IF lvl \in DOMAIN catalog THEN catalog[lvl]
    ELSE catalog[SetMax(DOMAIN catalog)]

----------------------------------------------------------------------------
(* Cell and Board *)

Cell(value, is_voltorb) ==
    [value |-> value, is_voltorb |-> is_voltorb,
     flipped |-> FALSE, marked |-> FALSE]

\* The outcomes of random.shuffle(cells) explored: left rotation by k places.
Shuffle(cells, k) ==
    [i \in 1..Len(cells) |-> cells[((i - 1 + k) % Len(cells)) + 1]]

\* generate_board with the counts of x2 and x3 cells exchanged
generate_board_swapped(config, k) ==
    LET num_2s == config.threes
        num_3s == config.twos
        num_voltorbs == config.Voltorbs
        total_cells == BOARD_SIZE * BOARD_SIZE
        num_1s == total_cells - num_voltorbs - num_2s - num_3s
        cells == Repeat(num_voltorbs, Cell(0, TRUE))
                   \o Repeat(num_2s, Cell(2, FALSE))
                   \o Repeat(num_3s, Cell(3, FALSE))
                   \o Repeat(num_1s, Cell(1, FALSE))
        shuffled == Shuffle(cells, k)
    IN  [i \in 1..BOARD_SIZE |->
            Slice(shuffled, (i - 1) * BOARD_SIZE, i * BOARD_SIZE)]

\* Board.generate_board for the chosen composition and shuffle outcome
generate_board(config, k) ==
    LET num_2s == config.twos
        num_3s == config.threes
        num_voltorbs == config.Voltorbs
        total_cells == BOARD_SIZE * BOARD_SIZE
        num_1s == total_cells - num_voltorbs - num_2s - num_3s
        cells == Repeat(num_voltorbs, Cell(0, TRUE))
                   \o Repeat(num_2s, Cell(2, FALSE))
                   \o Repeat(num_3s, Cell(3, FALSE))
                   \o Repeat(num_1s, Cell(1, FALSE))
        shuffled == Shuffle(cells, k)
    IN  [i \in 1..BOARD_SIZE |->
            Slice(shuffled, (i - 1) * BOARD_SIZE, i * BOARD_SIZE)]

\* calculate_hints with the column pass reading the row's cell
calculate_hints_rows_twice(grid) ==
    LET points(c) == IF c.is_voltorb THEN 0 ELSE c.value
        mines(c) == IF c.is_voltorb THEN 1 ELSE 0
        row_hints == [i \in 1..BOARD_SIZE |->
            << SumSeq([j \in 1..BOARD_SIZE |-> points(grid[i][j])]),
               SumSeq([j \in 1..BOARD_SIZE |-> mines(grid[i][j])]) >>]
        col_hints == [i \in 1..BOARD_SIZE |->
            << SumSeq([j \in 1..BOARD_SIZE |-> points(grid[i][j])]),
               SumSeq([j \in 1..BOARD_SIZE |-> mines(grid[i][j])]) >>]
    IN  << row_hints, col_hints >>

\* Board.calculate_hints
calculate_hints(grid) ==
    LET points(c) == IF c.is_voltorb THEN 0 ELSE c.value
        mines(c) == IF c.is_voltorb THEN 1 ELSE 0
        row_hints == [i \in 1..BOARD_SIZE |->
            << SumSeq([j \in 1..BOARD_SIZE |-> points(grid[i][j])]),
               SumSeq([j \in 1..BOARD_SIZE |-> mines(grid[i][j])]) >>]
        col_hints == [i \in 1..BOARD_SIZE |->
            << SumSeq([j \in 1..BOARD_SIZE |-> points(grid[j][i])]),
               SumSeq([j \in 1..BOARD_SIZE |-> mines(grid[j][i])]) >>]
    IN  << row_hints, col_hints >>

\* Board.__init__ once generate_board has returned `grid`
NewBoard(lvl, total_score, grid) ==
    LET hints == calculate_hints(grid)
    IN  [level |-> lvl,
         board |-> grid,
         row_hints |-> hints[1],
         col_hints |-> hints[2],
         score |-> 1,
         total_score |-> total_score,
         game_over |-> FALSE,
         win |-> FALSE]

\* Every Board(level, total_score) the explored random draws can build
Boards(catalog, lvl, total_score) ==
    LET configurations == Configurations(catalog, lvl)
    IN  { NewBoard(lvl, total_score, generate_board(configurations[c], k)) :
            c \in 1..Len(configurations), k \in 0..MaxShift }

\* Boards(LEVEL_CONFIGURATIONS, lvl, 0), tabulated for the levels 1..MaxLossLevel
LevelBoards ==
    [lvl \in 1..MaxLossLevel |-> Boards(LEVEL_CONFIGURATIONS, lvl, 0)]

\* Board(level, total_score) in main: the boards of Boards(LEVEL_CONFIGURATIONS,
\* lvl, total_score), taken from the table where it has the level
Board(lvl, total_score) ==
    IF lvl \in DOMAIN LevelBoards
    THEN { [b EXCEPT !.total_score = total_score] : b \in LevelBoards[lvl] }
    ELSE Boards(LEVEL_CONFIGURATIONS, lvl, total_score)

\* check_win with the test `cell.value > 0` in place of `cell.value > 1`
check_win_counts_ones(b) ==
    \A i \in 1..Len(b.board) : \A j \in 1..Len(b.board[i]) :
        ~(b.board[i][j].value > 0 /\ ~b.board[i][j].flipped)

\* Board.check_win
check_win(b) ==
    \A i \in 1..Len(b.board) : \A j \in 1..Len(b.board[i]) :
        ~(b.board[i][j].value > 1 /\ ~b.board[i][j].flipped)

\* flip_cell without the early return on an already flipped cell
flip_cell_no_return(b, row, col) ==
    LET cell == b.board[row + 1][col + 1]
        flipped == [b EXCEPT !.board[row + 1][col + 1].flipped = TRUE]
        scored == IF cell.value > 1
                  THEN [flipped EXCEPT !.score = @ * cell.value]
                  ELSE flipped
    IN  IF cell.is_voltorb THEN [flipped EXCEPT !.game_over = TRUE]
        ELSE IF check_win(scored) THEN [scored EXCEPT !.win = TRUE]
        ELSE scored

\* flip_cell with `self.score *= cell.value` moved before the Voltorb test
flip_cell_scores_voltorb(b, row, col) ==
    LET cell == b.board[row + 1][col + 1]
        flipped == [b EXCEPT !.board[row + 1][col + 1].flipped = TRUE,
                             !.score = @ * cell.value]
    IN  IF cell.flipped THEN b
        ELSE IF cell.is_voltorb THEN [flipped EXCEPT !.game_over = TRUE]
        ELSE IF check_win(flipped) THEN [flipped EXCEPT !.win = TRUE]
        ELSE flipped

\* flip_cell with `self.score += cell.value` in place of `*=`
flip_cell_adds(b, row, col) ==
    LET cell == b.board[row + 1][col + 1]
        flipped == [b EXCEPT !.board[row + 1][col + 1].flipped = TRUE]
        scored == IF cell.value > 1
                  THEN [flipped EXCEPT !.score = @ + cell.value]
                  ELSE flipped
    IN  IF cell.flipped THEN b
        ELSE IF cell.is_voltorb THEN [flipped EXCEPT !.game_over = TRUE]
        ELSE IF check_win(scored) THEN [scored EXCEPT !.win = TRUE]
        ELSE scored

\* flip_cell without `cell.flipped = True`
flip_cell_leaves_unflipped(b, row, col) ==
    LET cell == b.board[row + 1][col + 1]
        scored == IF cell.value > 1
                  THEN [b EXCEPT !.score = @ * cell.value]
                  ELSE b
    IN  IF cell.flipped THEN b
        ELSE IF cell.is_voltorb THEN [b EXCEPT !.game_over = TRUE]
        ELSE IF check_win(scored) THEN [scored EXCEPT !.win = TRUE]
        ELSE scored

\* Board.flip_cell
flip_cell(b, row, col) ==
    LET cell == b.board[row + 1][col + 1]
        flipped == [b EXCEPT !.board[row + 1][col + 1].flipped = TRUE]
        scored == IF cell.value > 1
                  THEN [flipped EXCEPT !.score = @ * cell.value]
                  ELSE flipped
    IN  IF cell.flipped THEN b
        ELSE IF cell.is_voltorb THEN [flipped EXCEPT !.game_over = TRUE]
        ELSE IF check_win(scored) THEN [scored EXCEPT !.win = TRUE]
        ELSE scored

\* toggle_mark without the test `not cell.flipped`
toggle_mark_any(b, row, col) ==
    [b EXCEPT !.board[row + 1][col + 1].marked = ~@]

\* Board.toggle_mark
toggle_mark(b, row, col) ==
    LET cell == b.board[row + 1][col + 1]
    IN  IF ~cell.flipped
        THEN [b EXCEPT !.board[row + 1][col + 1].marked = ~cell.marked]
        ELSE b

----------------------------------------------------------------------------
(* Level policy *)

\* Python floats are IEEE binary64.  Every float of this function lies in
\* [0, 8) and is a whole number of units of 2^-57; it is held as the pair
\* << hi, lo >> with value (hi * 2^30 + lo) * 2^-57 and 0 <= lo < 2^30.
Pow2(n) == 2 ^ n

RECURSIVE BitLength(_)
BitLength(n) == IF n = 0 THEN 0 ELSE 1 + BitLength(n \div 2)

\* round-to-nearest, ties-to-even, of an exact value to 53 significant bits
Round53(hi, lo) ==
    LET d == BitLength(hi) + 30 - 53
    IN  IF d <= 0 THEN << hi, lo >>
        ELSE LET unit == Pow2(d)
                 rem == lo % unit
                 kept == lo - rem
                 up == \/ 2 * rem > unit
                       \/ (2 * rem = unit /\ (kept \div unit) % 2 = 1)
                 rounded == IF up THEN kept + unit ELSE kept
             IN  IF rounded = Pow2(30) THEN << hi + 1, 0 >> ELSE << hi, rounded >>

\* a + b on floats
FloatAdd(a, b) ==
    LET s == a[2] + b[2]
    IN  Round53(a[1] + b[1] + (s \div Pow2(30)), s % Pow2(30))

\* n * a for an int n (0 <= n < 128) and a float a
IntTimesFloat(n, a) ==
    LET p0 == (a[2] % Pow2(15)) * n
        p1 == ((a[2] \div Pow2(15)) * n) + (p0 \div Pow2(15))
    IN  Round53((a[1] * n) + (p1 \div Pow2(15)),
                ((p1 % Pow2(15)) * Pow2(15)) + (p0 % Pow2(15)))

\* a < b on floats
FloatLess(a, b) == a[1] < b[1] \/ (a[1] = b[1] /\ a[2] < b[2])

\* the float literals of calculate_level_decrease
Float_0_1 == << 13421772, 858993460 >>    \* 0.1  = 0x1.999999999999ap-4
Float_0_05 == << 6710886, 429496730 >>    \* 0.05 = 0x1.999999999999ap-5
Float_0_9 == << 120795955, 214748368 >>   \* 0.9  = 0x1.ccccccccccccdp-1
Float_0_7 == << 93952409, 644245088 >>    \* 0.7  = 0x1.6666666666666p-1
Float_0_2 == << 26843545, 644245096 >>    \* 0.2  = 0x1.999999999999ap-3

\* The values of random.random() explored.  random.random() returns k * 2^-53
\* for an integer 0 <= k < 2^53, so lo is a multiple of 16 and hi < 2^27.
Draws ==
    { << 0, 0 >>,                    \* 0.0
      << 13421772, 858993456 >>,     \* 0.09999999999999998, the largest below 0.1
      << 13421772, 858993472 >>,     \* 0.10000000000000009, the least above 0.1
      << 93952409, 644245072 >>,     \* 0.6999999999999998
      << 93952409, 644245088 >>,     \* 0.7
      << 120795955, 214748352 >>,    \* 0.8999999999999999
      << 120795955, 214748368 >> }   \* 0.9

\* total_decrease_chance of calculate_level_decrease for a level
total_decrease_chance(lvl) ==
    LET baseline_chance == Float_0_1
        per_level_increase == Float_0_05
        uncapped == FloatAdd(baseline_chance,
                             IntTimesFloat(lvl - 1, per_level_increase))
    IN  IF FloatLess(Float_0_9, uncapped) THEN Float_0_9 ELSE uncapped

\* calculate_level_decrease without the floors max(1, ...)
calculate_level_decrease_unfloored(lvl, rand_value, rand_decrease) ==
    LET chance_decrease_1 == Float_0_7
        chance_decrease_2 == Float_0_2
    IN  IF FloatLess(rand_value, total_decrease_chance(lvl))
        THEN IF FloatLess(rand_decrease, chance_decrease_1)
             THEN << lvl - 1, "decreased by 1" >>
             ELSE IF FloatLess(rand_decrease,
                               FloatAdd(chance_decrease_1, chance_decrease_2))
             THEN << lvl - 2, "decreased by 2" >>
             ELSE << 1, "reset to Level 1" >>
        ELSE << lvl, "no change" >>

\* calculate_level_decrease, with its two draws as inputs
calculate_level_decrease(lvl, rand_value, rand_decrease) ==
    LET chance_decrease_1 == Float_0_7
        chance_decrease_2 == Float_0_2
    IN  IF FloatLess(rand_value, total_decrease_chance(lvl))
        THEN IF FloatLess(rand_decrease, chance_decrease_1)
             THEN << Max(1, lvl - 1), "decreased by 1" >>
             ELSE IF FloatLess(rand_decrease,
                               FloatAdd(chance_decrease_1, chance_decrease_2))
             THEN << Max(1, lvl - 2), "decreased by 2" >>
             ELSE << 1, "reset to Level 1" >>
        ELSE << lvl, "no change" >>

\* f"Your level has {decrease_message}."
DecreaseMessage(decrease_message) ==
    CASE decrease_message = "decreased by 1" -> "Your level has decreased by 1."
      [] decrease_message = "decreased by 2" -> "Your level has decreased by 2."
      [] decrease_message = "reset to Level 1" -> "Your level has reset to Level 1."
      [] OTHER -> "Your level has no change."

----------------------------------------------------------------------------
(* Session ledger: score.dat *)

AbsentFile == [kind |-> "absent", value |-> 0, total_score |-> 0, high_score |-> 0]

\* pickle of {'total_score': t, 'high_score': h}
DictFile(t, h) == [kind |-> "dict", value |-> 0, total_score |-> t, high_score |-> h]

\* pickle of a bare integer, as written by the previous version
IntFile(n) == [kind |-> "int", value |-> n, total_score |-> 0, high_score |-> 0]

\* The contents of score.dat explored at start-up
StoredFiles == { AbsentFile, IntFile(150) }

\* save_score
save_score(total_score, high) == DictFile(total_score, high)

\* bytes that are no pickle: empty, truncated or overwritten
CorruptFile == [kind |-> "corrupt", value |-> 0, total_score |-> 0, high_score |-> 0]

\* pickle.load(f) raises (EOFError, UnpicklingError) instead of returning
pickle_load_raises(file) == file.kind = "corrupt"

\* load_score; it returns no value when pickle.load raises, as nothing
\* catches the exception
load_score(file) ==
    IF file.kind # "absent"
    THEN CASE ~pickle_load_raises(file) ->
            IF file.kind = "dict"
            THEN << file.total_score, file.high_score >>
            ELSE << file.value, 0 >>
    ELSE << 0, 0 >>

----------------------------------------------------------------------------
(* main *)

\* The cells the player clicks on
Clickable(row, col) == row = 1 /\ col < MaxCol

Coordinates == 0..(BOARD_SIZE - 1)

\* The display before the first frame
NothingDrawn ==
    [menu |-> FALSE, cells |-> FALSE, game_over_text |-> FALSE, win_text |-> FALSE]

\* draw_board: the overlays "Game Over!" and "Level Cleared!"
draw_board(b) ==
    [menu |-> FALSE, cells |-> TRUE,
     game_over_text |-> b.game_over, win_text |-> b.win]

\* main, "Draw everything": the frame drawn at the end of a pass of the loop
DrawEverything(menu, b) ==
    IF menu
    THEN [menu |-> TRUE, cells |-> FALSE,
          game_over_text |-> FALSE, win_text |-> FALSE]
    ELSE draw_board(b)

\* main, before the event loop
Init ==
    \E file \in StoredFiles :
        /\ score_dat = file
        /\ high_score = load_score(file)[2]
        /\ level = 1
        /\ board \in Board(1, load_score(file)[1])
        /\ running = TRUE
        /\ show_level_menu = TRUE
        /\ level_decrease_message = ""
        /\ screen = NothingDrawn

\* event.type == pygame.QUIT
Quit ==
    /\ running
    /\ score_dat' = save_score(board.total_score, high_score)
    /\ running' = FALSE
    /\ UNCHANGED <<board, level, high_score, show_level_menu,
                   level_decrease_message>>
    /\ screen' = DrawEverything(show_level_menu', board')

\* The click condition without the tests of game_over and win
ClickAcceptedOffMenu(b, menu) == ~menu

\* The click condition with `not (board.game_over and board.win)`
ClickAcceptedEitherFlag(b, menu) == ~(b.game_over /\ b.win) /\ ~menu

\* The click condition without the test of show_level_menu
ClickAcceptedOnMenu(b, menu) == ~b.game_over /\ ~b.win

\* The condition under which main hands a click to the board
ClickAccepted(b, menu) == ~b.game_over /\ ~b.win /\ ~menu

\* pygame.MOUSEBUTTONDOWN with button 1 on the cell (row, col)
LeftClick(row, col) ==
    /\ running
    /\ board' = IF ClickAccepted(board, show_level_menu)
                THEN flip_cell(board, row, col)
                ELSE board
    /\ UNCHANGED <<level, high_score, show_level_menu,
                   level_decrease_message, score_dat, running>>
    /\ screen' = DrawEverything(show_level_menu', board')

\* pygame.MOUSEBUTTONDOWN with button 3 on the cell (row, col)
RightClick(row, col) ==
    /\ running
    /\ board' = IF ClickAccepted(board, show_level_menu)
                THEN toggle_mark(board, row, col)
                ELSE board
    /\ UNCHANGED <<level, high_score, show_level_menu,
                   level_decrease_message, score_dat, running>>
    /\ screen' = DrawEverything(show_level_menu', board')

\* K_RETURN / K_KP_ENTER while the level menu is shown
EnterMenu ==
    /\ running
    /\ show_level_menu
    /\ show_level_menu' = FALSE
    /\ level_decrease_message' = ""
    /\ UNCHANGED <<board, level, high_score, score_dat, running>>
    /\ screen' = DrawEverything(show_level_menu', board')

\* Enter on a won board with the round score added before and after the
\* high-score test
EnterWinAddsTwice ==
    /\ running
    /\ ~show_level_menu
    /\ board.win
    /\ board.level + 1 <= MaxLevel
    /\ board.total_score + board.score <= MaxTotal
    /\ LET total_score == board.total_score + board.score
           new_high == IF total_score > high_score THEN total_score
                       ELSE high_score
       IN  /\ high_score' = new_high
           /\ score_dat' = save_score(total_score, new_high)
           /\ level' = board.level + 1
           /\ board' \in Board(board.level + 1, total_score + board.score)
    /\ show_level_menu' = TRUE
    /\ UNCHANGED <<level_decrease_message, running>>
    /\ screen' = DrawEverything(show_level_menu', board')

\* K_RETURN / K_KP_ENTER on a won board
EnterWin ==
    /\ running
    /\ ~show_level_menu
    /\ board.win
    /\ board.level + 1 <= MaxLevel
    /\ board.total_score + board.score <= MaxTotal
    /\ LET total_score == board.total_score + board.score
           new_high == IF total_score > high_score THEN total_score
                       ELSE high_score
       IN  /\ high_score' = new_high
           /\ score_dat' = save_score(total_score, new_high)
           /\ level' = board.level + 1
           /\ board' \in Board(board.level + 1, total_score)
    /\ show_level_menu' = TRUE
    /\ UNCHANGED <<level_decrease_message, running>>
    /\ screen' = DrawEverything(show_level_menu', board')

\* K_RETURN / K_KP_ENTER on a lost board
EnterLoss ==
    /\ running
    /\ ~show_level_menu
    /\ ~board.win
    /\ board.game_over
    /\ \E result \in { calculate_level_decrease(level, rand_value, rand_decrease) :
                         rand_value \in Draws, rand_decrease \in Draws } :
        LET new_high == IF board.total_score > high_score
                        THEN board.total_score ELSE high_score
        IN  /\ level_decrease_message' = DecreaseMessage(result[2])
            /\ level' = result[1]
            /\ high_score' = new_high
            /\ score_dat' = save_score(board.total_score, new_high)
            /\ board' \in Board(result[1], board.total_score)
    /\ show_level_menu' = TRUE
    /\ UNCHANGED running
    /\ screen' = DrawEverything(show_level_menu', board')

\* K_s handled without the test of the total score
SpendPointsUnchecked ==
    /\ running
    /\ show_level_menu
    /\ level' = level + 1
    /\ board' \in Board(level + 1, board.total_score - LEVEL_PRICE)
    /\ score_dat' = save_score(board.total_score - LEVEL_PRICE, high_score)
    /\ UNCHANGED <<high_score, show_level_menu, level_decrease_message, running>>
    /\ screen' = DrawEverything(show_level_menu', board')

\* K_s while the level menu is shown
SpendPoints ==
    /\ running
    /\ show_level_menu
    /\ IF board.total_score >= LEVEL_PRICE
       THEN /\ level' = level + 1
            /\ board' \in Board(level + 1, board.total_score - LEVEL_PRICE)
            /\ score_dat' = save_score(board.total_score - LEVEL_PRICE, high_score)
       ELSE UNCHANGED <<level, board, score_dat>>
    /\ UNCHANGED <<high_score, show_level_menu, level_decrease_message, running>>
    /\ screen' = DrawEverything(show_level_menu', board')

\* K_r while the level menu is shown
ResetScore ==
    /\ running
    /\ show_level_menu
    /\ board' = [board EXCEPT !.total_score = 0]
    /\ score_dat' = save_score(0, high_score)
    /\ UNCHANGED <<level, high_score, show_level_menu,
                   level_decrease_message, running>>
    /\ screen' = DrawEverything(show_level_menu', board')

\* A left click on one of the cells the player clicks on
Flip == \E row \in Coordinates, col \in Coordinates :
            Clickable(row, col) /\ LeftClick(row, col)

\* A right click on one of the cells the player clicks on
Mark == \E row \in Coordinates, col \in Coordinates :
            Clickable(row, col) /\ RightClick(row, col)

----------------------------------------------------------------------------
(* Specifications *)

\* One round of the game, from the start of main: the level menu is
\* dismissed and the player flips and marks cells.
Next ==
    \/ Flip
    \/ Mark
    \/ EnterMenu
    \/ Quit

Spec == Init /\ [][Next]_vars

\* The session over several rounds, for a player who does not mark cells.
SessionNext ==
    \/ Flip
    \/ EnterMenu
    \/ EnterWin
    \/ EnterLoss
    \/ SpendPoints
    \/ ResetScore
    \/ Quit

SessionSpec == Init /\ [][SessionNext]_vars

\* One round on a Board built from the level-1 catalog entry or from the
\* composition of Scenario A.
BoardInit ==
    /\ score_dat = AbsentFile
    /\ high_score = 0
    /\ level = 1
    /\ board \in Boards(LEVEL_CONFIGURATIONS, 1, 0)
                   \cup Boards(SCENARIO_CONFIGURATIONS, 1, 0)
    /\ running = TRUE
    /\ show_level_menu = TRUE
    /\ level_decrease_message = ""
    /\ screen = NothingDrawn

BoardSpec == BoardInit /\ [][Next]_vars

\* The Board object before generate_board has run
NoBoard ==
    [level |-> 0, board |-> <<>>, row_hints |-> <<>>, col_hints |-> <<>>,
     score |-> 1, total_score |-> 0, game_over |-> FALSE, win |-> FALSE]

\* Board(level, total_score) is about to be built for a level 1..MaxProbeLevel
CatalogInit ==
    /\ score_dat = AbsentFile
    /\ high_score = 0
    /\ level \in 1..MaxProbeLevel
    /\ board = NoBoard
    /\ running = TRUE
    /\ show_level_menu = TRUE
    /\ level_decrease_message = ""
    /\ screen = NothingDrawn

\* board = Board(level, total_score)
BuildBoard ==
    /\ board = NoBoard
    /\ board' \in Boards(LEVEL_CONFIGURATIONS, level, 0)
    /\ UNCHANGED <<level, high_score, show_level_menu,
                   level_decrease_message, score_dat, running>>
    /\ screen' = screen

CatalogNext == BuildBoard

CatalogSpec == CatalogInit /\ [][CatalogNext]_vars

\* Rounds that can only be lost or abandoned, entered at any level a run of
\* wins or purchases reaches: main with `level` and the board of that level.
LossInit ==
    /\ level \in 1..MaxLossLevel
    /\ board \in Boards(LEVEL_CONFIGURATIONS, level, 0)
    /\ score_dat = AbsentFile
    /\ high_score = 0
    /\ running = TRUE
    /\ show_level_menu = TRUE
    /\ level_decrease_message = ""
    /\ screen = NothingDrawn

LossNext ==
    \/ Flip
    \/ EnterMenu
    \/ EnterLoss

LossSpec == LossInit /\ [][LossNext]_vars

\* The level menu at any level a run of wins or purchases reaches, with the
\* totals a session can have banked: the keys of the menu are pressed.
PurseFiles ==
    { DictFile(50, 150), DictFile(99, 150), DictFile(100, 150),
      DictFile(150, 150), DictFile(250, 250) }

SpendInit ==
    \E file \in PurseFiles :
        /\ score_dat = file
        /\ high_score = load_score(file)[2]
        /\ level \in 1..MaxSpendLevel
        /\ board \in Boards(LEVEL_CONFIGURATIONS, level, load_score(file)[1])
        /\ running = TRUE
        /\ show_level_menu = TRUE
        /\ level_decrease_message = ""
        /\ screen = NothingDrawn

SpendNext ==
    \/ SpendPoints
    \/ ResetScore
    \/ EnterMenu
    \/ Quit

SpendSpec == SpendInit /\ [][SpendNext]_vars

\* The contents of score.dat a start of the program is probed with
ProbeFiles ==
    { AbsentFile, CorruptFile }
        \cup { DictFile(t, h) : t \in 0..MaxStored, h \in 0..MaxStored }
        \cup { IntFile(n) : n \in 0..MaxStored }

\* The program is about to run main: nothing is assigned or drawn yet.
LoadInit ==
    /\ score_dat \in ProbeFiles
    /\ board = NoBoard
    /\ level = 0
    /\ high_score = 0
    /\ running = FALSE
    /\ show_level_menu = FALSE
    /\ level_decrease_message = ""
    /\ screen = NothingDrawn

\* main, up to the event loop; an exception of load_score ends the program
StartMain ==
    /\ board = NoBoard
    /\ ~running
    /\ ~pickle_load_raises(score_dat)
    /\ high_score' = load_score(score_dat)[2]
    /\ level' = 1
    /\ board' \in Board(1, load_score(score_dat)[1])
    /\ running' = TRUE
    /\ show_level_menu' = TRUE
    /\ level_decrease_message' = ""
    /\ UNCHANGED <<score_dat, screen>>

LoadNext == StartMain

LoadSpec == LoadInit /\ [][LoadNext]_vars

\* A right click on the first of the cells the player clicks on
MarkFirst == \E row \in Coordinates :
                Clickable(row, 0) /\ RightClick(row, 0)

\* The session over several rounds, for a player who marks one cell.
MenuNext ==
    \/ Flip
    \/ MarkFirst
    \/ EnterMenu
    \/ EnterWin
    \/ EnterLoss
    \/ SpendPoints
    \/ ResetScore
    \/ Quit

MenuSpec == Init /\ [][MenuNext]_vars

\* The cells of a board that are not flipped, numbered 0..24 in reading order
Unflipped(b) ==
    { n \in 0..(BOARD_SIZE * BOARD_SIZE - 1) :
        ~b.board[(n \div BOARD_SIZE) + 1][(n % BOARD_SIZE) + 1].flipped }

\* The unflipped cells with fewer than MaxPick unflipped cells before them or
\* fewer than MaxPick after them
Picks(b) ==
    { n \in Unflipped(b) :
        \/ Cardinality({ m \in Unflipped(b) : m < n }) < MaxPick
        \/ Cardinality({ m \in Unflipped(b) : m > n }) < MaxPick }

\* A left click on an unflipped cell, anywhere on the board
FlipUnflipped ==
    \E n \in Picks(board) : LeftClick(n \div BOARD_SIZE, n % BOARD_SIZE)

\* One round in which the player flips unflipped cells of the whole board and
\* goes on doing so while clicks are handled.
RoundNext ==
    \/ FlipUnflipped
    \/ EnterMenu
    \/ Quit

RoundSpec == BoardInit /\ [][RoundNext]_vars /\ WF_vars(FlipUnflipped)

\* A catalog whose compositions all count more than 25 cells
OVERFULL_CONFIGURATIONS ==
    [l \in 1..1 |-> << Config(10, 10, 10), Config(13, 13, 0), Config(0, 0, 26),
                     Config(9, 9, 9), Config(12, 12, 12), Config(8, 8, 10) >>]

\* board = Board(level, total_score) with the overfull catalog in place
BuildOverfullBoard ==
    /\ board = NoBoard
    /\ board' \in Boards(OVERFULL_CONFIGURATIONS, level, 0)
    /\ UNCHANGED <<level, high_score, show_level_menu,
                   level_decrease_message, score_dat, running>>
    /\ screen' = screen

OverfullNext == BuildOverfullBoard

OverfullSpec == CatalogInit /\ [][OverfullNext]_vars

----------------------------------------------------------------------------
(* Properties *)

Cells == Coordinates \X Coordinates

At(b, rc) == b.board[rc[1] + 1][rc[2] + 1]

FlippedCells(b) == { rc \in Cells : At(b, rc).flipped }

Multipliers(b) == { rc \in Cells : At(b, rc).value > 1 }

Terminal(b) == b.game_over \/ b.win

\* The cells in row-major order
CellSeq(b) ==
    [n \in 1..(BOARD_SIZE * BOARD_SIZE) |->
        b.board[((n - 1) \div BOARD_SIZE) + 1][((n - 1) % BOARD_SIZE) + 1]]

\* C1: the terminal flags gameOver and win are never both true, and both are
\* false on a board on which no cell has been flipped.
C1_FlagsExclusive ==
    /\ ~(board.game_over /\ board.win)
    /\ (FlippedCells(board) = {} => ~board.game_over /\ ~board.win)

\* C1 witness: a lost board on which every multiplier cell within the
\* player's reach but one is flipped, so that one more accepted flip would win.
C1_Witness ==
    /\ board.game_over
    /\ ~board.win
    /\ \E rc \in Cells :
        /\ Clickable(rc[1], rc[2])
        /\ Multipliers(board) \ FlippedCells(board) = {rc}

\* C2: once the board is Won or Lost, every flip and every toggleMark leaves
\* the whole board (flipped, marked, roundScore, gameOver, win) unchanged, and
\* no step makes a terminal board non-terminal.
C2_TerminalFrozen ==
    [][ Terminal(board) =>
          /\ (Flip \/ Mark) => board' = board
          /\ board'.game_over = board.game_over
          /\ board'.win = board.win ]_vars

\* C2 witness: a won board on which an unflipped, unmarked cell is still
\* within reach while the game is running.
C2_Witness ==
    /\ running
    /\ board.win
    /\ \E rc \in Cells :
        Clickable(rc[1], rc[2]) /\ ~At(board, rc).flipped /\ ~At(board, rc).marked

\* C3: an accepted flip of an unflipped non-mine cell makes the board Won iff
\* every cell with value > 1 is then flipped, never makes it Lost, and on a
\* board without x2/x3 cells it sets win and leaves roundScore at 1.
C3_WinIffMultipliersFlipped ==
    [][ \A rc \in Cells :
          ( /\ ClickAccepted(board, show_level_menu)
            /\ ~At(board, rc).flipped
            /\ ~At(board, rc).is_voltorb
            /\ LeftClick(rc[1], rc[2]) )
          => /\ At(board', rc).flipped
             /\ board'.win <=> (Multipliers(board') \subseteq FlippedCells(board'))
             /\ ~board'.game_over
             /\ (Multipliers(board) = {} => board'.win /\ board'.score = 1) ]_vars

\* C3 witness: a board without multiplier cells, Won by the flip of a single
\* x1 cell, with roundScore 1.
C3_Witness ==
    /\ Multipliers(board) = {}
    /\ board.win
    /\ board.score = 1
    /\ Cardinality(FlippedCells(board)) = 1

\* C4 (as claimed): a board without multiplier cells is Won, with roundScore 1,
\* before any flip.
C4_WonOnGeneration ==
    (Multipliers(board) = {} /\ FlippedCells(board) = {})
        => (board.win /\ board.score = 1)

\* C5: an accepted flip of an unflipped mine cell makes the board Lost
\* (gameOver true, win false) and leaves roundScore unchanged.
C5_MineLoses ==
    [][ \A rc \in Cells :
          ( /\ ClickAccepted(board, show_level_menu)
            /\ ~At(board, rc).flipped
            /\ At(board, rc).is_voltorb
            /\ LeftClick(rc[1], rc[2]) )
          => /\ board'.game_over
             /\ ~board'.win
             /\ board'.score = board.score ]_vars

\* C5 witness: a board Lost after the round score had grown above 1.
C5_Witness ==
    /\ board.game_over
    /\ board.score > 1
    /\ \E rc \in FlippedCells(board) : At(board, rc).is_voltorb

\* C6: a flip of an already flipped cell leaves the board unchanged.
C6_FlipIdempotent ==
    [][ \A rc \in Cells :
          (At(board, rc).flipped /\ LeftClick(rc[1], rc[2]))
          => board' = board ]_vars

\* C6 witness: a board in progress, off the menu, with a flipped multiplier
\* cell within reach (a second flip of it is handed to the board).
C6_Witness ==
    /\ running
    /\ ClickAccepted(board, show_level_menu)
    /\ \E rc \in FlippedCells(board) :
        Clickable(rc[1], rc[2]) /\ At(board, rc).value > 1

\* C7: roundScore is the product of the values of the flipped cells whose
\* value is 2 or 3 (1 when there are none).
C7_ScoreIsProduct ==
    board.score =
        ProdSeq([n \in 1..(BOARD_SIZE * BOARD_SIZE) |->
                    IF CellSeq(board)[n].flipped /\ CellSeq(board)[n].value \in {2, 3}
                    THEN CellSeq(board)[n].value ELSE 1])

\* C7 witness: exactly one x2 and one x3 cell flipped, roundScore 6.
C7_Witness ==
    /\ board.score = 6
    /\ Cardinality(FlippedCells(board)) = 2
    /\ { At(board, rc).value : rc \in FlippedCells(board) } = {2, 3}

\* C8 (as claimed): no cell is both flipped and marked.
C8_NoFlippedMarked ==
    \A rc \in Cells : ~(At(board, rc).flipped /\ At(board, rc).marked)

\* C9: toggleMark is a no-op on a flipped cell and otherwise inverts only that
\* cell's marked flag, everything else on the board staying as it was; a
\* second toggleMark on the same cell restores the board.
C9_ToggleMarkFrame ==
    [][ \A rc \in Cells :
          ( /\ ClickAccepted(board, show_level_menu)
            /\ RightClick(rc[1], rc[2]) )
          => /\ board' = IF At(board, rc).flipped THEN board
                         ELSE [board EXCEPT !.board[rc[1] + 1][rc[2] + 1].marked = ~@]
             /\ toggle_mark(board', rc[1], rc[2]) = board ]_vars

\* C9 witness: a board in progress with a marked unflipped cell and a flipped
\* unmarked cell, both within reach.
C9_Witness ==
    /\ ClickAccepted(board, show_level_menu)
    /\ \E rc \in Cells :
        Clickable(rc[1], rc[2]) /\ At(board, rc).marked /\ ~At(board, rc).flipped
    /\ \E rc \in Cells :
        Clickable(rc[1], rc[2]) /\ At(board, rc).flipped /\ ~At(board, rc).marked

\* The composition a grid realizes
Composition(b) ==
    Config(Cardinality({ rc \in Cells : At(b, rc).value = 2 }),
           Cardinality({ rc \in Cells : At(b, rc).value = 3 }),
           Cardinality({ rc \in Cells : At(b, rc).is_voltorb }))

ConfigSet(configurations) ==
    { configurations[i] : i \in 1..Len(configurations) }

\* C10: for every level >= 1 the catalog lookup gives a non-empty list of
\* compositions with mines + twos + threes <= 25; above level 8 it gives the
\* compositions of level 8, and a board built for the level realizes one of
\* the compositions looked up.
C10_CatalogLookup ==
    LET configurations == Configurations(LEVEL_CONFIGURATIONS, level)
    IN  /\ Len(configurations) > 0
        /\ \A i \in 1..Len(configurations) :
              configurations[i].Voltorbs + configurations[i].twos
                + configurations[i].threes <= BOARD_SIZE * BOARD_SIZE
        /\ level > 8 => configurations = LEVEL_CONFIGURATIONS[8]
        /\ board # NoBoard =>
              Composition(board) \in
                 ConfigSet(LEVEL_CONFIGURATIONS[IF level > 8 THEN 8 ELSE level])

\* C10 witness: a board built for a level above 8.
C10_Witness ==
    /\ level > 8
    /\ board # NoBoard
    /\ Composition(board) \in ConfigSet(LEVEL_CONFIGURATIONS[8])

\* The cells of a grid, row after row, whatever the length of its rows
FlatCells(grid) ==
    LET RECURSIVE Cat(_)
        Cat(n) == IF n = 0 THEN <<>> ELSE Cat(n - 1) \o grid[n]
    IN  Cat(Len(grid))

CountCells(grid, P(_)) ==
    Cardinality({ n \in 1..Len(FlatCells(grid)) : P(FlatCells(grid)[n]) })

\* C11: a generated board is a 5x5 grid of 25 cells that realizes one
\* composition of its level's catalog entry: that many mines (value 0,
\* isMine), x2 cells and x3 cells, and x1 cells for the rest, all non-mine;
\* every cell starts unflipped and unmarked, roundScore is 1 and both
\* terminal flags are false.
C11_BoardRealizesComposition ==
    board # NoBoard =>
      LET grid == board.board
          IsMine(c) == c.is_voltorb /\ c.value = 0
          IsTwo(c) == ~c.is_voltorb /\ c.value = 2
          IsThree(c) == ~c.is_voltorb /\ c.value = 3
          IsOne(c) == ~c.is_voltorb /\ c.value = 1
          Fresh(c) == ~c.flipped /\ ~c.marked
          configurations == Configurations(LEVEL_CONFIGURATIONS, board.level)
      IN  /\ Len(grid) = 5
          /\ \A i \in 1..Len(grid) : Len(grid[i]) = 5
          /\ Len(FlatCells(grid)) = 25
          /\ \E c \in 1..Len(configurations) :
                /\ CountCells(grid, IsMine) = configurations[c].Voltorbs
                /\ CountCells(grid, IsTwo) = configurations[c].twos
                /\ CountCells(grid, IsThree) = configurations[c].threes
                /\ CountCells(grid, IsOne) =
                      25 - configurations[c].Voltorbs - configurations[c].twos
                         - configurations[c].threes
          /\ CountCells(grid, Fresh) = 25
          /\ board.score = 1
          /\ ~board.game_over
          /\ ~board.win
          /\ board.level = level

\* C11 witness: a generated board with 13 mines, nine x2, one x3 and two x1
\* cells (level 7).
C11_Witness ==
    /\ board # NoBoard
    /\ CountCells(board.board, LAMBDA c : c.is_voltorb) = 13
    /\ CountCells(board.board, LAMBDA c : c.value = 2) = 9
    /\ CountCells(board.board, LAMBDA c : c.value = 1) = 2

\* C12 (as claimed): generation from a composition with mines + twos + threes
\* above 25 is refused: no board built from such a composition is returned.
C12_OverfullCompositionRefused ==
    (\A c \in ConfigSet(Configurations(OVERFULL_CONFIGURATIONS, level)) :
        c.Voltorbs + c.twos + c.threes > BOARD_SIZE * BOARD_SIZE)
    => board = NoBoard

\* The pair (sum of the values of the non-mine cells, number of mine cells)
\* of a set of positions of a board, counted by value class.
HintOver(b, positions) ==
    LET valued(v) == Cardinality({ rc \in positions :
                        ~At(b, rc).is_voltorb /\ At(b, rc).value = v })
    IN  << valued(1) + 2 * valued(2) + 3 * valued(3),
           Cardinality({ rc \in positions : At(b, rc).is_voltorb }) >>

HintsMatchGrid(b) ==
    \A i \in Coordinates :
        /\ b.row_hints[i + 1] = HintOver(b, { << i, j >> : j \in Coordinates })
        /\ b.col_hints[i + 1] = HintOver(b, { << j, i >> : j \in Coordinates })

\* A step in which a click has flipped or marked a cell of the board
ClickHandled ==
    /\ ClickAccepted(board, show_level_menu)
    /\ board' # board
    /\ UNCHANGED <<level, show_level_menu, score_dat, running>>

\* C13: for every index i in 0..4, rowHints[i] is (sum of the values of the
\* non-mine cells of row i, number of mines of row i) and colHints[i] the same
\* pair over column i, before and after every step; a flip or a mark leaves
\* both hint lists as they were.
C13_HintsFromValues ==
    [][/\ HintsMatchGrid(board)
       /\ HintsMatchGrid(board')
       /\ ClickHandled =>
            /\ board'.row_hints = board.row_hints
            /\ board'.col_hints = board.col_hints]_vars

\* a board with a flipped and a marked cell whose row 1 holds mines and
\* points, and whose row and column hints differ
C13_Witness ==
    /\ \E rc \in Cells : At(board, rc).flipped
    /\ \E rc \in Cells : At(board, rc).marked
    /\ board.row_hints[2][2] > 0
    /\ board.row_hints[2][1] > 0
    /\ board.row_hints # board.col_hints
    /\ HintsMatchGrid(board)

\* onLoss as the claim words it: decreaseChance is min(0.9, 0.10 + 0.05 *
\* (level - 1)) and the second draw is cut at the literals 0.70 and 0.90.
onLossClaimed(lvl, r1, r2) ==
    LET sum == FloatAdd(Float_0_1, IntTimesFloat(lvl - 1, Float_0_05))
        decreaseChance == IF FloatLess(sum, Float_0_9) THEN sum ELSE Float_0_9
    IN  IF ~FloatLess(r1, decreaseChance) THEN << lvl, "no change" >>
        ELSE IF FloatLess(r2, Float_0_7)
             THEN << Max(1, lvl - 1), "decreased by 1" >>
        ELSE IF FloatLess(r2, Float_0_9)
             THEN << Max(1, lvl - 2), "decreased by 2" >>
        ELSE << 1, "reset to Level 1" >>

\* C14 (as claimed): at the session's level, for every first draw r1 and second
\* draw r2, the level policy returns (level, "no change") when r1 >=
\* decreaseChance, and otherwise "decreased by 1" for r2 < 0.70, "decreased by
\* 2" for 0.70 <= r2 < 0.90 and "reset to Level 1" for r2 >= 0.90.
C14_TwoStageDraw ==
    \A r1 \in Draws, r2 \in Draws :
        calculate_level_decrease(level, r1, r2) = onLossClaimed(level, r1, r2)

\* A step in which main handles Enter on a lost board
LossHandled == ~show_level_menu /\ board.game_over /\ ~board.win /\ show_level_menu'

\* C15: every lost round, whatever its draws, leaves a level from 1 up to the
\* level it was lost at, and the decrease chance used for it is at most 0.9,
\* as it is at level 100; the session level is at least 1 before and after
\* every step.
C15_LevelStaysInRange ==
    [][/\ LossHandled =>
            /\ level' \in 1..level
            /\ ~FloatLess(Float_0_9, total_decrease_chance(level))
            /\ ~FloatLess(Float_0_9, total_decrease_chance(100))
       /\ level >= 1
       /\ level' >= 1]_vars

\* a round lost above level 17, where the chance is capped, has left the
\* level as it was
C15_Witness ==
    /\ level > 17
    /\ level_decrease_message = "Your level has no change."
    /\ total_decrease_chance(level) = Float_0_9
    /\ FloatLess(Float_0_9,
                 FloatAdd(Float_0_1, IntTimesFloat(level - 1, Float_0_05)))

\* A board as Board(level, total_score) leaves it: no cell flipped or marked,
\* round score 1, neither lost nor won
FreshBoard(b) ==
    /\ \A rc \in Cells : ~At(b, rc).flipped /\ ~At(b, rc).marked
    /\ b.score = 1
    /\ ~b.game_over
    /\ ~b.win

\* C16: pressing S on the level menu with a total score of 100 or more gives
\* level + 1, the total score less 100 and a new board of the new level; with
\* less than 100 the level, the total score and the board stay as they are;
\* the total score is never below 0 afterwards.
C16_SpendPoints ==
    [][SpendPoints =>
        /\ IF board.total_score >= 100
           THEN /\ level' = level + 1
                /\ board'.total_score = board.total_score - 100
                /\ board'.level = level + 1
                /\ FreshBoard(board')
           ELSE /\ level' = level
                /\ board' = board
        /\ board.total_score >= 0 => board'.total_score >= 0]_vars

\* Scenario D has happened: from level 3 with 150 points, level 4 with 50
C16_Witness ==
    /\ level = 4
    /\ board.level = 4
    /\ board.total_score = 50
    /\ score_dat = DictFile(50, 150)
    /\ show_level_menu

\* A step in which main handles a round-end event: Enter on a won or lost
\* board, an accepted purchase of a level, or a manual reset
RoundEnded ==
    /\ running'
    /\ \/ ~show_level_menu /\ show_level_menu'
       \/ show_level_menu /\ show_level_menu' /\ <<level, board>>' # <<level, board>>

\* C17 (as claimed): no step decreases highScore, and after every round-end
\* event (win, loss, level purchase, manual reset) highScore is the larger of
\* its previous value and the total score, so it is at least the total score,
\* whatever record the session was loaded from.
C17_HighScoreWatermark ==
    [][/\ high_score' >= high_score
       /\ RoundEnded =>
            /\ high_score' = Max(high_score, board'.total_score)
            /\ high_score' >= board'.total_score]_vars

\* The record a reader of score.dat finds holds the result of the round that
\* ended on board b: the total score with the round score of a win added (a
\* loss adds nothing).
RecordHoldsResult(file, b) ==
    LET total == IF b.win THEN b.total_score + b.score ELSE b.total_score
    IN  load_score(file)[1] = total

\* C18 (as claimed): every round-end event (win, loss, level purchase, manual
\* reset) saves the total score and the high score then in memory, and
\* whenever the display shows the outcome of a round ("Level Cleared!" or
\* "Game Over!") score.dat already holds that round's result.
C18_SavedBeforeShown ==
    [][/\ RoundEnded => score_dat' = save_score(board'.total_score, high_score')
       /\ (screen'.win_text \/ screen'.game_over_text) =>
            RecordHoldsResult(score_dat', board')]_vars

\* C19 (as claimed): loading score.dat never raises; it gives (0, 0) when the
\* file is absent or corrupt, the stored (totalScore, highScore) for a
\* well-formed record and (n, 0) for a legacy record of the bare integer n.
C19_LoadNeverRaises ==
    /\ ~pickle_load_raises(score_dat)
    /\ load_score(score_dat) =
         CASE score_dat.kind \in {"absent", "corrupt"} -> << 0, 0 >>
           [] score_dat.kind = "dict" ->
                << score_dat.total_score, score_dat.high_score >>
           [] score_dat.kind = "int" -> << score_dat.value, 0 >>

\* The levels the level policy returns for a level, over all pairs of draws
PolicyLevels ==
    [lvl \in 1..MaxLossLevel |->
        { calculate_level_decrease(lvl, r1, r2)[1] : r1 \in Draws, r2 \in Draws }]

\* A step in which main handles Enter on a won board
WinHandled == ~show_level_menu /\ board.win /\ show_level_menu'

\* C20: Enter on a won board adds the round score to the total score once and
\* starts a board at level + 1; Enter on a lost board leaves the total score
\* as it was and starts a board at the level the level policy returns for some
\* draws; either way the new board has round score 1, no cell flipped and the
\* session's total score.
C20_RoundResolved ==
    [][/\ WinHandled =>
            /\ board'.total_score = board.total_score + board.score
            /\ level' = level + 1
            /\ board'.level = level + 1
            /\ FreshBoard(board')
       /\ LossHandled =>
            /\ board'.total_score = board.total_score
            /\ level' \in PolicyLevels[level]
            /\ board'.level = level'
            /\ FreshBoard(board')]_vars

\* a won round worth more than one point has been banked, and the level-2
\* board is up
C20_Witness ==
    /\ level = 2
    /\ board.level = 2
    /\ board.total_score > 1
    /\ score_dat = DictFile(board.total_score, board.total_score)
    /\ FreshBoard(board)
    /\ show_level_menu

\* A step in which a cell of the current board is flipped or marked
CellTouched ==
    /\ board' # board
    /\ UNCHANGED <<level, show_level_menu, score_dat, running>>

\* A step in which the level or the total score changes on a board that is
\* neither lost nor won: a level purchase or a manual reset
PurseChanged ==
    /\ ~Terminal(board)
    /\ level' # level \/ board'.total_score # board.total_score

\* The board is as Board(level, total_score) left it
MenuBoardUntouched ==
    show_level_menu => FreshBoard(board) /\ board.level = level

\* C21: a cell is flipped or marked only while the level menu is hidden and
\* the board is neither lost nor won, the level and the total score are bought
\* or reset only while the menu is shown, and whenever the menu is shown, before
\* and after every step, the board is untouched: no cell flipped or marked,
\* round score 1, not lost, not won, and of the session's level.
C21_MenuShowsUntouchedBoard ==
    [][/\ CellTouched => ~show_level_menu /\ ~Terminal(board)
       /\ PurseChanged => show_level_menu
       /\ MenuBoardUntouched
       /\ MenuBoardUntouched']_vars

\* the menu is up again after a lost round, over the untouched board of the
\* level the loss has left
C21_Witness ==
    /\ show_level_menu
    /\ level_decrease_message = "Your level has decreased by 1."
    /\ screen.menu
    /\ FreshBoard(board)
    /\ board.level = level

\* C22: a step that changes the board flips exactly one more cell; never more than 25 cells are flipped, and a board with all 25 flipped
\* is lost or won; and once the menu is gone, a player who keeps flipping
\* unflipped cells sees the board lost or won, unless the program is quit.
C22_RoundTerminates ==
    /\ [][board' # board =>
            Cardinality(FlippedCells(board')) = Cardinality(FlippedCells(board)) + 1]_vars
    /\ [](/\ Cardinality(FlippedCells(board)) <= BOARD_SIZE * BOARD_SIZE
          /\ Cardinality(FlippedCells(board)) = BOARD_SIZE * BOARD_SIZE
                => Terminal(board))
    /\ (running /\ ~show_level_menu) ~> (Terminal(board) \/ ~running)

\* a round has been won with its last multiplier as the nineteenth flip
C22_Witness ==
    /\ board.win
    /\ Cardinality(FlippedCells(board)) = 19
    /\ \A rc \in Cells : At(board, rc).flipped = ~At(board, rc).is_voltorb

====
